---- MODULE Spec2Model ----
(***************************************************************************)
(* Doughnut order assistant: the order state shared by the API gateway and *)
(* the robot worker process.                                               *)
(*                                                                         *)
(*   gateway : api/app.py, services/orders.py, state_controller/*          *)
(*             (OrderStateManager(skip_socket=True), event queue, SSE)     *)
(*   worker  : robot_controller/worker.py, worker_main.py                  *)
(*             (PersistentRobotWorker, its own OrderStateManager())        *)
(*   relay   : /tmp/doughnut_events.sock (worker -> gateway, one line per  *)
(*             connection), /tmp/doughnut_worker.sock (gateway -> worker,  *)
(*             one command and one response per connection)                *)
(*                                                                         *)
(* Conventions.                                                            *)
(*  - progress is a float in [0.0, 1.0]; it is kept in tenths (0.5 -> 5).  *)
(*  - request ids are uuid4 strings; they are the fresh numbers 1, 2, ...  *)
(*  - the Japanese message literals are written as ASCII text.             *)
(*  - the gateway sends a command over a blocking socket                   *)
(*    (worker.py:692-702 never calls setblocking(False)), so its event     *)
(*    loop does nothing else between the send and the response: a command  *)
(*    round trip is one step.                                              *)
(*  - publish_event is called as publish_event(event, skip_socket=...)     *)
(*    (machine.py:43) and behaves as the docstring at machine.py:16-21     *)
(*    says: with skip_socket the event is only put on the local queue.     *)
(*  - DONUT_SIM_ROBOT is unset (orders.py:40 default "0").                 *)
(***************************************************************************)
EXTENDS Integers, Sequences, FiniteSets, TLC

----------------------------------------------------------------------------
(* Bounds of the model.                                                    *)

\* request ids that exist
MaxIds == 2
\* orders the gateway creates in one run of the two processes
MaxOrders == 1
\* cancel requests the gateway receives in one run
MaxCancels == 2
\* task steps that still run between the server loop's exit and the
\* cancellation of all tasks by asyncio.run
MaxGraceSteps == 2
\* relay sends that fail (connect or send error, swallowed by the publisher)
MaxDrops == 1
\* lifecycle operations applied in the OrderStateManager specification
MaxOps == 3
\* events published in the event bus specification
MaxPublish == 3

----------------------------------------------------------------------------
(* api/schemas.py, state_controller/states.py                              *)

Flavor == {"chocolate", "strawberry"}

OrderPhase == {"WAITING", "PUTTING_DONUT", "CLOSING_LID", "DONE", "CANCELED", "ERROR"}

Ids == 1..MaxIds

\* Python's None where a request id is expected
None == -1

\* ids a client may name in a request; 0 is an id no create_order returned
RequestIds == 0..MaxIds

MsgAccepted == "order accepted"
MsgCompleted == "doughnuts boxed"
MsgCanceledState == "order canceled"
MsgCanceledEvent == "order was canceled"
MsgPhase1Done == "Phase 1 done, preparing Phase 2"
MsgPhase2Start == "Executing policy to close the box..."
MsgPhase1NoR == "Phase 1 completed but R key not detected"
MsgPhase2NoR == "Phase 2 completed but R key not detected"
MsgEngineFailed == "run_episode raised"
MsgStartFailed == "Failed to start order"

MsgPhase1Start(flavor) ==
    IF flavor = "chocolate" THEN "box packing started (chocolate)"
    ELSE "box packing started (strawberry)"

StatusUpdateEvent(request_id, stage, progress, message) ==
    [type |-> "status_update", request_id |-> request_id, stage |-> stage,
     progress |-> progress, message |-> message]

CompletedEvent(request_id, result) ==
    [type |-> "completed", request_id |-> request_id, result |-> result]

ErrorEvent(request_id, message) ==
    [type |-> "error", request_id |-> request_id, message |-> message]

OrderState(request_id, flavor, phase, message, progress) ==
    [request_id |-> request_id, flavor |-> flavor, phase |-> phase,
     message |-> message, progress |-> progress, error_message |-> "None"]

----------------------------------------------------------------------------
(* state_controller/machine.py: OrderStateManager.  Each operation maps a  *)
(* registry (a dict request_id -> OrderState) to the registry after it and *)
(* the event it publishes.                                                 *)

create_order_mut(reg, request_id, flavor) ==
    LET state == OrderState(request_id, flavor, "PUTTING_DONUT", MsgAccepted, 5)
    IN [orders |-> [i \in DOMAIN reg \cup {request_id} |->
                        IF i = request_id THEN state ELSE reg[i]],
        event |-> StatusUpdateEvent(request_id, state.phase, state.progress, state.message)]

create_order(reg, request_id, flavor) ==
    LET state == OrderState(request_id, flavor, "WAITING", MsgAccepted, 0)
    IN [orders |-> [i \in DOMAIN reg \cup {request_id} |->
                        IF i = request_id THEN state ELSE reg[i]],
        event |-> StatusUpdateEvent(request_id, state.phase, state.progress, state.message)]

\* a set_phase that refuses to leave DONE, CANCELED and ERROR
set_phase_mut_terminal(reg, request_id, phase, message, progress) ==
    [orders |-> IF request_id \in DOMAIN reg
                   /\ reg[request_id].phase \notin {"DONE", "CANCELED", "ERROR"}
                THEN [reg EXCEPT ![request_id].phase = phase,
                                 ![request_id].message = message,
                                 ![request_id].progress = progress]
                ELSE reg,
     event |-> StatusUpdateEvent(request_id, phase, progress, message)]

\* a set_phase that creates the entry it does not find
set_phase_mut(reg, request_id, phase, message, progress) ==
    [orders |-> [i \in DOMAIN reg \cup {request_id} |->
                    IF i = request_id
                    THEN OrderState(request_id, "chocolate", phase, message, progress)
                    ELSE reg[i]],
     event |-> StatusUpdateEvent(request_id, phase, progress, message)]

set_phase(reg, request_id, phase, message, progress) ==
    [orders |-> IF request_id \in DOMAIN reg
                THEN [reg EXCEPT ![request_id].phase = phase,
                                 ![request_id].message = message,
                                 ![request_id].progress = progress]
                ELSE reg,
     event |-> StatusUpdateEvent(request_id, phase, progress, message)]

\* a completion that reports the sentinel flavor for every order
mark_completed_mut(reg, request_id) ==
    [orders |-> IF request_id \in DOMAIN reg
                THEN [reg EXCEPT ![request_id].phase = "DONE",
                                 ![request_id].progress = 10,
                                 ![request_id].message = MsgCompleted]
                ELSE reg,
     event |-> CompletedEvent(request_id, [delivered |-> TRUE, flavor |-> "unknown"])]

mark_completed(reg, request_id) ==
    [orders |-> IF request_id \in DOMAIN reg
                THEN [reg EXCEPT ![request_id].phase = "DONE",
                                 ![request_id].progress = 10,
                                 ![request_id].message = MsgCompleted]
                ELSE reg,
     event |-> CompletedEvent(request_id,
                   [delivered |-> TRUE,
                    flavor |-> IF request_id \in DOMAIN reg
                               THEN reg[request_id].flavor ELSE "unknown"])]

\* a cancellation that turns an order already CANCELED into ERROR
mark_canceled_mut(reg, request_id) ==
    [orders |-> IF request_id \in DOMAIN reg
                THEN [reg EXCEPT ![request_id].phase =
                                     IF reg[request_id].phase = "CANCELED"
                                     THEN "ERROR" ELSE "CANCELED",
                                 ![request_id].message = MsgCanceledState]
                ELSE reg,
     event |-> ErrorEvent(request_id, MsgCanceledEvent)]

mark_canceled(reg, request_id) ==
    [orders |-> IF request_id \in DOMAIN reg
                THEN [reg EXCEPT ![request_id].phase = "CANCELED",
                                 ![request_id].message = MsgCanceledState]
                ELSE reg,
     event |-> ErrorEvent(request_id, MsgCanceledEvent)]

\* an error that also resets the progress
mark_error_mut(reg, request_id, message) ==
    [orders |-> IF request_id \in DOMAIN reg
                THEN [reg EXCEPT ![request_id].phase = "ERROR",
                                 ![request_id].progress = 0,
                                 ![request_id].error_message = message]
                ELSE reg,
     event |-> ErrorEvent(request_id, message)]

mark_error(reg, request_id, message) ==
    [orders |-> IF request_id \in DOMAIN reg
                THEN [reg EXCEPT ![request_id].phase = "ERROR",
                                 ![request_id].error_message = message]
                ELSE reg,
     event |-> ErrorEvent(request_id, message)]

----------------------------------------------------------------------------
(* state_controller/events.py                                              *)

\* JSON values as json.dumps writes them and json.loads reads them
JString(s) == [t |-> "string", v |-> s]

JNumber(n) == [t |-> "number", v |-> n]

JBool(b) == [t |-> "bool", v |-> b]

JNull == [t |-> "null"]

JObject(o) == [t |-> "object", v |-> o]

\* json.dumps(event.model_dump()) + "\n": one line on the event socket; the
\* EventType member is written as its string value, None as null
json_line(event) ==
    [kind |-> "json",
     obj |->
        IF event.type = "status_update"
        THEN [type |-> JString(event.type), request_id |-> JString(event.request_id),
              stage |-> JString(event.stage), progress |-> JNumber(event.progress),
              message |-> JString(event.message)]
        ELSE IF event.type = "completed"
        THEN [type |-> JString(event.type), request_id |-> JString(event.request_id),
              result |-> JObject([delivered |-> JBool(event.result.delivered),
                                  flavor |-> JString(event.result.flavor)])]
        ELSE [type |-> JString(event.type),
              request_id |-> IF event.request_id = None THEN JNull
                             ELSE JString(event.request_id),
              message |-> JString(event.message)]]

\* the JSON object d has the key f with a value of JSON type t
Has(d, f, t) == f \in DOMAIN d /\ d[f].t = t

\* a decoder that reads progress as a whole number
model_validate_mut(line) ==
    IF line.kind # "json" THEN [ok |-> FALSE]
    ELSE LET d == line.obj IN
         IF ~Has(d, "type", "string") THEN [ok |-> FALSE]
         ELSE IF /\ d.type.v = "status_update"
                 /\ Has(d, "request_id", "string") /\ Has(d, "stage", "string")
                 /\ Has(d, "progress", "number") /\ Has(d, "message", "string")
         THEN [ok |-> TRUE,
               event |-> StatusUpdateEvent(d.request_id.v, d.stage.v,
                                           (d.progress.v \div 10) * 10, d.message.v)]
         ELSE IF d.type.v = "completed" /\ Has(d, "request_id", "string")
                 /\ Has(d, "result", "object")
         THEN [ok |-> TRUE,
               event |-> CompletedEvent(d.request_id.v,
                             [delivered |-> d.result.v.delivered.v,
                              flavor |-> d.result.v.flavor.v])]
         ELSE IF d.type.v = "error" /\ Has(d, "message", "string")
                 /\ (Has(d, "request_id", "string") \/ Has(d, "request_id", "null"))
         THEN [ok |-> TRUE,
               event |-> ErrorEvent(IF d.request_id.t = "null" THEN None
                                    ELSE d.request_id.v, d.message.v)]
         ELSE [ok |-> FALSE]

\* json.loads + GatewayEvent.model_validate: the member of the union whose
\* type literal and field types the object satisfies (progress within
\* [0.0, 1.0]), or not ok: the except branch of handle_client.  Lines are
\* JSON objects that carry a type key, or text that is not JSON.
model_validate(line) ==
    IF line.kind # "json" THEN [ok |-> FALSE]
    ELSE LET d == line.obj IN
         IF ~Has(d, "type", "string") THEN [ok |-> FALSE]
         ELSE IF /\ d.type.v = "status_update"
                 /\ Has(d, "request_id", "string") /\ Has(d, "stage", "string")
                 /\ Has(d, "progress", "number") /\ d.progress.v \in 0..10
                 /\ Has(d, "message", "string")
         THEN [ok |-> TRUE,
               event |-> StatusUpdateEvent(d.request_id.v, d.stage.v,
                                           d.progress.v, d.message.v)]
         ELSE IF d.type.v = "completed" /\ Has(d, "request_id", "string")
                 /\ Has(d, "result", "object")
         THEN [ok |-> TRUE,
               event |-> CompletedEvent(d.request_id.v,
                             [delivered |-> d.result.v.delivered.v,
                              flavor |-> d.result.v.flavor.v])]
         ELSE IF d.type.v = "error" /\ Has(d, "message", "string")
                 /\ (Has(d, "request_id", "string") \/ Has(d, "request_id", "null"))
         THEN [ok |-> TRUE,
               event |-> ErrorEvent(IF d.request_id.t = "null" THEN None
                                    ELSE d.request_id.v, d.message.v)]
         ELSE [ok |-> FALSE]

\* a bus that hands out the newest event first
publish_event_mut(queue, event) == <<event>> \o queue

\* await _event_queue.put(event)
publish_event(queue, event) == Append(queue, event)

\* _send_event_to_socket: connect, send one line, close; sent = FALSE when the
\* socket path is absent or connect/send raised (swallowed)
send_event_to_socket(socket, event, sent) ==
    IF sent THEN Append(socket, json_line(event)) ELSE socket

\* iter_events: the SSE data line of one event
sse_line(event) == [data |-> event]

----------------------------------------------------------------------------
(* api/app.py                                                              *)

phase_map(stage) == IF stage \in OrderPhase THEN stage ELSE "WAITING"

\* lifespan.sync_worker_events: the registry after the event is applied and
\* the events the gateway's state manager publishes while applying it
sync_worker_events(reg, event) ==
    IF event.type = "status_update"
    THEN LET r == set_phase(reg, event.request_id, phase_map(event.stage),
                            event.message, event.progress)
         IN [orders |-> r.orders, events |-> <<r.event>>]
    ELSE IF event.type = "completed"
    THEN LET r == mark_completed(reg, event.request_id)
         IN [orders |-> r.orders, events |-> <<r.event>>]
    ELSE IF event.type = "error" /\ event.request_id # None
    THEN LET r == mark_error(reg, event.request_id, event.message)
         IN [orders |-> r.orders, events |-> <<r.event>>]
    ELSE [orders |-> reg, events |-> <<>>]

\* subscribe_events(sync_callback): every event handle_client enqueues is
\* handed to the registered callback
notify_subscribers(reg, event) == sync_worker_events(reg, event)

\* a gateway state manager built without skip_socket
skip_socket_mut == FALSE

\* lifespan: _state_manager = OrderStateManager(skip_socket=True)
skip_socket == TRUE

\* publish_event(event, skip_socket=self._skip_socket) of the gateway's state
\* manager, for the events of one operation: the relay send is left out when
\* skip_socket is set
GatewayRelay(socket, events) ==
    IF skip_socket THEN socket
    ELSE socket \o [k \in DOMAIN events |-> json_line(events[k])]

\* done as the comment at app.py:181 words it ("DONE or ERROR")
IsDone_mut(phase) == phase \in {"DONE", "ERROR"}

\* done = state.phase in {DONE, ERROR, CANCELED}
IsDone(phase) == phase \in {"DONE", "ERROR", "CANCELED"}

\* GET /orders/{request_id}/status
get_order_status(reg, request_id) ==
    IF request_id \notin DOMAIN reg
    THEN [http |-> 404]
    ELSE LET state == reg[request_id] IN
         [http |-> 200, request_id |-> state.request_id, stage |-> state.phase,
          progress |-> state.progress, message |-> state.message,
          done |-> IsDone(state.phase)]

----------------------------------------------------------------------------
(* State.                                                                  *)

VARIABLES
    orders,              \* gateway: _state_manager._orders
    event_queue,         \* gateway: _event_queue
    sse_out,             \* gateway: lines iter_events has yielded to the SSE client
    last_cancel,         \* gateway: the latest POST /orders/{id}/cancel and its response
    n_cancels,           \* gateway: cancel requests served so far
    event_socket,        \* relay: lines written to the event socket, not yet read
    drops,               \* relay: sends that failed so far
    w_orders,            \* worker: state_manager._orders
    w_event_queue,       \* worker: _event_queue (never drained in the worker process)
    shutdown_event,      \* worker: _shutdown_event
    current_request_id,  \* worker: _current_request_id (-1 is None)
    current_flavor,      \* worker: _current_flavor
    tasks,               \* worker: the _execute_order tasks, by request id
    worker,              \* worker: "down", "serving", "stopping" or "exited"
    n_commands,          \* worker: commands read from the control socket so far
    grace,               \* worker: task steps run since the server loop ended
    n_ops,               \* callers of one component: operations applied so far
    last_op,             \* callers of one component: the latest operation
    published,           \* callers of one component: events handed to publish_event
    sse_out2,            \* gateway: lines yielded to a second, concurrent SSE client
    got,                 \* callers of one component: the client that took the k-th event
    backlog,             \* gateway: connections in the listen queue of the event socket
    clients,             \* gateway: the connections of the event socket, in connect order
    ready,               \* gateway: the event loop's queue of callbacks to run, oldest first
    ntodo,               \* gateway: callbacks left to run in this iteration of the loop
    accepting            \* gateway: accept_loop is "waiting" in sock_accept, or its "callback" is queued, or it is "running"

gw_vars == <<orders, event_queue, sse_out, last_cancel, n_cancels>>
relay_vars == <<event_socket, drops>>
w_vars == <<w_orders, w_event_queue, shutdown_event, current_request_id,
            current_flavor, tasks, worker, n_commands, grace>>
loop_vars == <<backlog, clients, ready, ntodo, accepting>>
h_vars == <<n_ops, last_op, published, sse_out2, got, loop_vars>>
vars == <<gw_vars, relay_vars, w_vars, h_vars>>

EmptyDict == [i \in {} |-> 0]

NoOp == [op |-> "none"]

Init ==
    /\ orders = EmptyDict
    /\ event_queue = <<>>
    /\ sse_out = <<>>
    /\ last_cancel = [request_id |-> None, known |-> FALSE, response |-> "none"]
    /\ n_cancels = 0
    /\ event_socket = <<>>
    /\ drops = 0
    /\ w_orders = EmptyDict
    /\ w_event_queue = <<>>
    /\ shutdown_event = FALSE
    /\ current_request_id = None
    /\ current_flavor = "None"
    /\ tasks = EmptyDict
    /\ worker \in {"down", "serving"}
    /\ n_commands = 0
    /\ grace = 0
    /\ n_ops = 0
    /\ last_op = NoOp
    /\ published = <<>>
    /\ sse_out2 = <<>>
    /\ got = <<>>
    /\ backlog = <<>>
    /\ clients = <<>>
    /\ ready = <<>>
    /\ ntodo = 0
    /\ accepting = "waiting"

----------------------------------------------------------------------------
(* robot_controller/worker.py: PersistentRobotWorker                       *)

\* a publish whose local enqueue is lost when the relay send fails
WorkerPublish_mut(r) ==
    /\ w_orders' = r.orders
    /\ \/ /\ event_socket' = send_event_to_socket(event_socket, r.event, TRUE)
          /\ w_event_queue' = publish_event(w_event_queue, r.event)
          /\ UNCHANGED drops
       \/ /\ drops < MaxDrops
          /\ event_socket' = send_event_to_socket(event_socket, r.event, FALSE)
          /\ UNCHANGED w_event_queue
          /\ drops' = drops + 1

\* a state-manager operation of the worker: its registry, its local queue and
\* the relay send, which may fail
WorkerPublish(r) ==
    /\ w_orders' = r.orders
    /\ w_event_queue' = publish_event(w_event_queue, r.event)
    /\ \/ /\ event_socket' = send_event_to_socket(event_socket, r.event, TRUE)
          /\ UNCHANGED drops
       \/ /\ drops < MaxDrops
          /\ event_socket' = send_event_to_socket(event_socket, r.event, FALSE)
          /\ drops' = drops + 1

WorkerSilent == UNCHANGED <<w_orders, w_event_queue, event_socket, drops>>

\* asyncio.create_task(self._execute_order(request_id, flavor)); confirmed
\* records whether _wait_for_r_key_async has returned True since the task
\* entered its present phase
NewTask(flavor) ==
    [pc |-> "created", flavor |-> flavor, ph |-> 1, r_detected |-> FALSE,
     episode_shutdown |-> FALSE, engine |-> "idle", confirmed |-> FALSE]

\* run(): model and robot initialised, control socket bound
WorkerStart ==
    /\ worker = "down"
    /\ worker' = "serving"
    /\ UNCHANGED <<gw_vars, relay_vars, h_vars, w_orders, w_event_queue, shutdown_event,
                   current_request_id, current_flavor, tasks, n_commands, grace>>

\* the event loop still runs the task: the server loop is up, or it has ended
\* and asyncio.run has not cancelled the tasks yet
TaskMayRun(id) ==
    /\ id \in DOMAIN tasks
    /\ \/ worker = "serving"
       \/ worker = "stopping" /\ grace < MaxGraceSteps

TaskStep == grace' = IF worker = "stopping" THEN grace + 1 ELSE grace

\* a return that leaves the current-order pointer as it is
TaskReturns_mut(id, engine) ==
    /\ tasks' = [tasks EXCEPT ![id].pc = "finished", ![id].engine = engine]
    /\ UNCHANGED <<current_request_id, current_flavor>>

\* the finally block of _execute_order; engine is "raised" when the sequence
\* ends because run_episode raised, "idle" otherwise
TaskReturns(id, engine) ==
    /\ tasks' = [tasks EXCEPT ![id].pc = "finished", ![id].engine = engine]
    /\ current_request_id' = None
    /\ current_flavor' = "None"

\* a start that takes the current-order pointer only when it is empty
ExecuteOrderStart_mut(id) ==
    /\ TaskMayRun(id)
    /\ tasks[id].pc = "created"
    /\ current_request_id' = IF current_request_id = None THEN id ELSE current_request_id
    /\ current_flavor' = IF current_request_id = None THEN tasks[id].flavor
                         ELSE current_flavor
    /\ WorkerPublish(set_phase(w_orders, id, "PUTTING_DONUT",
                               MsgPhase1Start(tasks[id].flavor), 5))
    /\ tasks' = [tasks EXCEPT ![id].pc = "race", ![id].ph = 1,
                              ![id].engine = "running",
                              ![id].episode_shutdown = FALSE,
                              ![id].r_detected = FALSE,
                              ![id].confirmed = FALSE]
    /\ TaskStep
    /\ UNCHANGED <<gw_vars, h_vars, shutdown_event, worker, n_commands>>

\* _execute_order up to the first asyncio.wait (lines 282-354)
ExecuteOrderStart(id) ==
    /\ TaskMayRun(id)
    /\ tasks[id].pc = "created"
    /\ current_request_id' = id
    /\ current_flavor' = tasks[id].flavor
    /\ WorkerPublish(set_phase(w_orders, id, "PUTTING_DONUT",
                               MsgPhase1Start(tasks[id].flavor), 5))
    /\ tasks' = [tasks EXCEPT ![id].pc = "race", ![id].ph = 1,
                              ![id].engine = "running",
                              ![id].episode_shutdown = FALSE,
                              ![id].r_detected = FALSE,
                              ![id].confirmed = FALSE]
    /\ TaskStep
    /\ UNCHANGED <<gw_vars, h_vars, shutdown_event, worker, n_commands>>

NoRMessage(ph) == IF ph = 1 THEN MsgPhase1NoR ELSE MsgPhase2NoR

\* a check that reports the missing confirmation and goes on all the same
AfterConfirmation_mut(id, r_detected, confirmed) ==
    /\ IF ~r_detected \/ shutdown_event
       THEN WorkerPublish(mark_error(w_orders, id, NoRMessage(tasks[id].ph)))
       ELSE IF tasks[id].ph = 1
       THEN WorkerPublish(set_phase(w_orders, id, "PUTTING_DONUT", MsgPhase1Done, 7))
       ELSE WorkerSilent
    /\ tasks' = [tasks EXCEPT ![id].pc = "sleep", ![id].engine = "idle",
                              ![id].r_detected = r_detected,
                              ![id].confirmed = confirmed]
    /\ UNCHANGED <<current_request_id, current_flavor>>

\* lines 387-402 and 493-500: the check after the confirmation wait
AfterConfirmation(id, r_detected, confirmed) ==
    IF ~r_detected \/ shutdown_event
    THEN /\ WorkerPublish(mark_error(w_orders, id, NoRMessage(tasks[id].ph)))
         /\ TaskReturns(id, "idle")
    ELSE /\ IF tasks[id].ph = 1
            THEN WorkerPublish(set_phase(w_orders, id, "PUTTING_DONUT", MsgPhase1Done, 7))
            ELSE WorkerSilent
         /\ tasks' = [tasks EXCEPT ![id].pc = "sleep", ![id].engine = "idle",
                                   ![id].r_detected = r_detected,
                                   ![id].confirmed = confirmed]
         /\ UNCHANGED <<current_request_id, current_flavor>>

\* an engine run that, when it ends first, lets the order go on without
\* waiting for the R key
EpisodeFirst_mut(id, raised) ==
    /\ TaskMayRun(id)
    /\ tasks[id].pc = "race"
    /\ IF raised
       THEN /\ WorkerPublish(mark_error(w_orders, id, MsgEngineFailed))
            /\ TaskReturns(id, "raised")
       ELSE AfterConfirmation(id, TRUE, tasks[id].confirmed)
    /\ TaskStep
    /\ UNCHANGED <<gw_vars, h_vars, shutdown_event, worker, n_commands>>

\* asyncio.wait returns because run_episode finished first (lines 365-385)
EpisodeFirst(id, raised) ==
    /\ TaskMayRun(id)
    /\ tasks[id].pc = "race"
    /\ IF raised
       THEN /\ WorkerPublish(mark_error(w_orders, id, MsgEngineFailed))
            /\ TaskReturns(id, "raised")
       ELSE /\ tasks' = [tasks EXCEPT ![id].pc = "rkey", ![id].engine = "idle"]
            /\ WorkerSilent
            /\ UNCHANGED <<current_request_id, current_flavor>>
    /\ TaskStep
    /\ UNCHANGED <<gw_vars, h_vars, shutdown_event, worker, n_commands>>

\* a confirmation that lets the order go on while the engine still runs
RKeyFirst_mut(id, r) ==
    /\ TaskMayRun(id)
    /\ tasks[id].pc = "race"
    /\ r => ~shutdown_event
    /\ IF r
       THEN /\ tasks' = [tasks EXCEPT ![id].pc = "sleep", ![id].r_detected = r,
                                      ![id].episode_shutdown = r, ![id].confirmed = r]
            /\ IF tasks[id].ph = 1
               THEN WorkerPublish(set_phase(w_orders, id, "PUTTING_DONUT", MsgPhase1Done, 7))
               ELSE WorkerSilent
       ELSE /\ tasks' = [tasks EXCEPT ![id].pc = "episode", ![id].r_detected = r,
                                      ![id].episode_shutdown = r, ![id].confirmed = r]
            /\ WorkerSilent
    /\ TaskStep
    /\ UNCHANGED <<gw_vars, h_vars, shutdown_event, worker, n_commands,
                   current_request_id, current_flavor>>

\* asyncio.wait returns because wait_for_r_and_shutdown finished first
\* (lines 333-345, 358-364); _wait_for_r_key_async returns True only while
\* the shutdown flag is clear (lines 259-260)
RKeyFirst(id, r) ==
    /\ TaskMayRun(id)
    /\ tasks[id].pc = "race"
    /\ r => ~shutdown_event
    /\ tasks' = [tasks EXCEPT ![id].pc = "episode", ![id].r_detected = r,
                              ![id].episode_shutdown = r, ![id].confirmed = r]
    /\ WorkerSilent
    /\ TaskStep
    /\ UNCHANGED <<gw_vars, h_vars, shutdown_event, worker, n_commands,
                   current_request_id, current_flavor>>

\* await episode_task after the R key task ended (lines 373-378)
EpisodeDone(id, raised) ==
    /\ TaskMayRun(id)
    /\ tasks[id].pc = "episode"
    /\ IF raised
       THEN /\ WorkerPublish(mark_error(w_orders, id, MsgEngineFailed))
            /\ TaskReturns(id, "raised")
       ELSE IF tasks[id].r_detected
       THEN AfterConfirmation(id, TRUE, tasks[id].confirmed)
       ELSE /\ tasks' = [tasks EXCEPT ![id].pc = "rkey", ![id].engine = "idle"]
            /\ WorkerSilent
            /\ UNCHANGED <<current_request_id, current_flavor>>
    /\ TaskStep
    /\ UNCHANGED <<gw_vars, h_vars, shutdown_event, worker, n_commands>>

\* r_detected = await self._wait_for_r_key_async() (lines 380-385)
RKeyWait(id, r) ==
    /\ TaskMayRun(id)
    /\ tasks[id].pc = "rkey"
    /\ r => ~shutdown_event
    /\ AfterConfirmation(id, r, r)
    /\ TaskStep
    /\ UNCHANGED <<gw_vars, h_vars, shutdown_event, worker, n_commands>>

\* a second phase that is announced with the progress of the first
SleepDone_mut(id) ==
    /\ TaskMayRun(id)
    /\ tasks[id].pc = "sleep"
    /\ IF tasks[id].ph = 1
       THEN /\ WorkerPublish(set_phase(w_orders, id, "CLOSING_LID", MsgPhase2Start, 5))
            /\ tasks' = [tasks EXCEPT ![id].pc = "race", ![id].ph = 2,
                                      ![id].engine = "running",
                                      ![id].episode_shutdown = FALSE,
                                      ![id].r_detected = FALSE,
                                      ![id].confirmed = FALSE]
            /\ UNCHANGED <<current_request_id, current_flavor>>
       ELSE /\ WorkerPublish(mark_completed(w_orders, id))
            /\ TaskReturns(id, "idle")
    /\ TaskStep
    /\ UNCHANGED <<gw_vars, h_vars, shutdown_event, worker, n_commands>>

\* asyncio.sleep(_POST_R_DELAY_SEC) is over (lines 402-412 and 500-504)
SleepDone(id) ==
    /\ TaskMayRun(id)
    /\ tasks[id].pc = "sleep"
    /\ IF tasks[id].ph = 1
       THEN /\ WorkerPublish(set_phase(w_orders, id, "CLOSING_LID", MsgPhase2Start, 9))
            /\ tasks' = [tasks EXCEPT ![id].pc = "race", ![id].ph = 2,
                                      ![id].engine = "running",
                                      ![id].episode_shutdown = FALSE,
                                      ![id].r_detected = FALSE,
                                      ![id].confirmed = FALSE]
            /\ UNCHANGED <<current_request_id, current_flavor>>
       ELSE /\ WorkerPublish(mark_completed(w_orders, id))
            /\ TaskReturns(id, "idle")
    /\ TaskStep
    /\ UNCHANGED <<gw_vars, h_vars, shutdown_event, worker, n_commands>>

Started(t) == t.pc \in {"race", "episode", "rkey", "sleep"}

\* _socket_server_loop has left its while loop: run() returns and
\* asyncio.run cancels every task that is left (worker_main.py:33); a task
\* that had started runs its finally block
WorkerExit ==
    /\ worker = "stopping"
    /\ worker' = "exited"
    /\ tasks' = [i \in DOMAIN tasks |->
                    IF tasks[i].pc = "finished" THEN tasks[i]
                    ELSE [tasks[i] EXCEPT !.pc = "cancelled"]]
    /\ IF \E i \in DOMAIN tasks : Started(tasks[i])
       THEN current_request_id' = None /\ current_flavor' = "None"
       ELSE UNCHANGED <<current_request_id, current_flavor>>
    /\ UNCHANGED <<gw_vars, relay_vars, h_vars, w_orders, w_event_queue,
                   shutdown_event, n_commands, grace>>

\* _handle_command, START_ORDER with request_id and flavor (lines 517-521)
HandleStartOrder(id, flavor) ==
    /\ tasks' = [i \in DOMAIN tasks \cup {id} |->
                    IF i = id THEN NewTask(flavor) ELSE tasks[i]]
    /\ n_commands' = n_commands + 1
    /\ UNCHANGED <<w_orders, w_event_queue, drops, shutdown_event,
                   current_request_id, current_flavor, worker, grace>>

\* a cancel that stops the worker whatever order it names
HandleCancelOrder_mut(id) ==
    /\ n_commands' = n_commands + 1
    /\ shutdown_event' = TRUE
    /\ WorkerPublish(mark_canceled(w_orders, id))
    /\ worker' = "stopping"
    /\ grace' = 0
    /\ UNCHANGED <<current_request_id, current_flavor, tasks>>

\* _handle_command, CANCEL_ORDER with request_id (lines 523-530), and the
\* while condition of _socket_server_loop read after the response (line 572)
HandleCancelOrder(id) ==
    /\ n_commands' = n_commands + 1
    /\ IF current_request_id = id
       THEN /\ shutdown_event' = TRUE
            /\ WorkerPublish(mark_canceled(w_orders, id))
            /\ worker' = "stopping"
            /\ grace' = 0
       ELSE /\ WorkerSilent
            /\ UNCHANGED <<shutdown_event, worker, grace>>
    /\ UNCHANGED <<current_request_id, current_flavor, tasks>>

\* _handle_command, SHUTDOWN (lines 532-534), and the while condition of
\* _socket_server_loop read after the response (line 572)
HandleShutdown ==
    /\ n_commands' = n_commands + 1
    /\ shutdown_event' = TRUE
    /\ worker' = "stopping"
    /\ grace' = 0
    /\ WorkerSilent
    /\ UNCHANGED <<current_request_id, current_flavor, tasks>>

\* what a client writes on one connection to /tmp/doughnut_worker.sock
Command(type, request_id, flavor) ==
    [kind |-> "json", type |-> type, request_id |-> request_id, flavor |-> flavor]

\* a connection closed by the client before it wrote anything
NoData == [kind |-> "empty"]

\* data that json.loads rejects
NotACommand == [kind |-> "text"]

Ok(message) == [status |-> "ok", message |-> message]

Error(message) == [status |-> "error", message |-> message]

\* a handler that starts an order whatever the command lacks
responses_mut_lenient(data) ==
    IF data.kind = "empty" THEN <<>>
    ELSE IF data.kind # "json" THEN <<Error("not JSON")>>
    ELSE IF data.type \notin {"start_order", "cancel_order", "shutdown"}
    THEN <<Error("not a WorkerCommandType")>>
    ELSE IF data.type = "start_order"
    THEN <<Ok("Order started")>>
    ELSE IF data.type = "cancel_order"
    THEN IF data.request_id = None THEN <<Error("Missing request_id")>>
         ELSE <<Ok("Order canceled")>>
    ELSE <<Ok("Shutdown requested")>>

\* a server loop that answers only the commands it could handle
responses_mut(data) ==
    IF data.kind = "json" /\ data.type \in {"start_order", "cancel_order", "shutdown"}
       /\ data.request_id # None
    THEN <<Ok("done")>>
    ELSE <<>>

\* _socket_server_loop, lines 574-599, and _handle_command: the responses
\* written on one accepted connection that delivered data
responses(data) ==
    IF data.kind = "empty" THEN <<>>
    ELSE IF data.kind # "json" THEN <<Error("not JSON")>>
    ELSE IF data.type \notin {"start_order", "cancel_order", "shutdown"}
    THEN <<Error("not a WorkerCommandType")>>
    ELSE IF data.type = "start_order"
    THEN IF data.request_id = None \/ data.flavor = "None"
         THEN <<Error("Missing request_id or flavor")>>
         ELSE <<Ok("Order started")>>
    ELSE IF data.type = "cancel_order"
    THEN IF data.request_id = None THEN <<Error("Missing request_id")>>
         ELSE <<Ok("Order canceled")>>
    ELSE <<Ok("Shutdown requested")>>

\* send_command_to_worker_async: json.loads of what recv returned, or the
\* error object of its except branch
command_result(received) ==
    IF received = <<>> THEN Error("no JSON in response") ELSE received[1]

----------------------------------------------------------------------------
(* services/orders.py, api/app.py: the gateway's handlers                  *)

\* send_command_to_worker_async reaches the worker only while its server
\* loop accepts; otherwise it returns {"status": "error", ...}
WorkerReachable == worker = "serving"

\* a creation that ignores the response to StartOrder
CreateOrder_mut(flavor) ==
    /\ Cardinality(DOMAIN orders) < MaxOrders
    /\ LET request_id == Cardinality(DOMAIN orders) + 1
           c == create_order(orders, request_id, flavor)
       IN /\ orders' = c.orders
          /\ event_queue' = publish_event(event_queue, c.event)
          /\ event_socket' = GatewayRelay(event_socket, <<c.event>>)
          /\ IF WorkerReachable
             THEN HandleStartOrder(request_id, flavor)
             ELSE UNCHANGED <<drops, w_vars>>
    /\ UNCHANGED <<sse_out, last_cancel, n_cancels, h_vars>>

\* POST /orders: OrderService.create_order
CreateOrder(flavor) ==
    /\ Cardinality(DOMAIN orders) < MaxOrders
    /\ LET request_id == Cardinality(DOMAIN orders) + 1
           c == create_order(orders, request_id, flavor)
       IN IF WorkerReachable
          THEN /\ orders' = c.orders
               /\ event_queue' = publish_event(event_queue, c.event)
               /\ event_socket' = GatewayRelay(event_socket, <<c.event>>)
               /\ HandleStartOrder(request_id, flavor)
          ELSE LET e == mark_error(c.orders, request_id, MsgStartFailed) IN
               /\ orders' = e.orders
               /\ event_queue' = publish_event(publish_event(event_queue, c.event), e.event)
               /\ event_socket' = GatewayRelay(event_socket, <<c.event, e.event>>)
               /\ UNCHANGED <<drops, w_vars>>
    /\ UNCHANGED <<sse_out, last_cancel, n_cancels, h_vars>>

\* a cancel that goes to the worker without looking the order up
CancelOrder_mut(request_id) ==
    /\ n_cancels < MaxCancels
    /\ n_cancels' = n_cancels + 1
    /\ IF WorkerReachable
       THEN /\ HandleCancelOrder(request_id)
            /\ last_cancel' = [request_id |-> request_id,
                               known |-> request_id \in DOMAIN orders,
                               response |-> "canceled"]
       ELSE /\ last_cancel' = [request_id |-> request_id,
                               known |-> request_id \in DOMAIN orders,
                               response |-> "not_found"]
            /\ UNCHANGED <<relay_vars, w_vars>>
    /\ UNCHANGED <<orders, event_queue, sse_out, h_vars>>

\* POST /orders/{request_id}/cancel: OrderService.cancel_order and the 404 of
\* app.cancel_order
CancelOrder(request_id) ==
    /\ n_cancels < MaxCancels
    /\ n_cancels' = n_cancels + 1
    /\ IF request_id \notin DOMAIN orders
       THEN /\ last_cancel' = [request_id |-> request_id, known |-> FALSE,
                               response |-> "not_found"]
            /\ UNCHANGED <<relay_vars, w_vars>>
       ELSE IF WorkerReachable
       THEN /\ HandleCancelOrder(request_id)
            /\ last_cancel' = [request_id |-> request_id, known |-> TRUE,
                               response |-> "canceled"]
       ELSE /\ last_cancel' = [request_id |-> request_id, known |-> TRUE,
                               response |-> "not_found"]
            /\ UNCHANGED <<relay_vars, w_vars>>
    /\ UNCHANGED <<orders, event_queue, sse_out, h_vars>>

\* a receive loop that a malformed line ends: the connection is closed and
\* the lines buffered behind it are lost
HandleClient_mut ==
    /\ event_socket # <<>>
    /\ LET v == model_validate(Head(event_socket)) IN
       IF v.ok
       THEN LET s == notify_subscribers(orders, v.event) IN
            /\ event_socket' = GatewayRelay(Tail(event_socket), s.events)
            /\ orders' = s.orders
            /\ event_queue' = publish_event(event_queue, v.event) \o s.events
       ELSE /\ event_socket' = <<>>
            /\ UNCHANGED <<orders, event_queue>>
    /\ UNCHANGED <<sse_out, last_cancel, n_cancels, drops, w_vars, h_vars>>

\* start_event_socket_server.handle_client: one line of one connection
HandleClient ==
    /\ event_socket # <<>>
    /\ LET v == model_validate(Head(event_socket)) IN
       IF v.ok
       THEN LET s == notify_subscribers(orders, v.event) IN
            /\ orders' = s.orders
            /\ event_queue' = publish_event(event_queue, v.event) \o s.events
            /\ event_socket' = GatewayRelay(Tail(event_socket), s.events)
       ELSE /\ event_socket' = Tail(event_socket)
            /\ UNCHANGED <<orders, event_queue>>
    /\ UNCHANGED <<sse_out, last_cancel, n_cancels, drops, w_vars, h_vars>>

\* GET /events: event_generator takes the next line of iter_events
SseEvents ==
    /\ event_queue # <<>>
    /\ sse_out' = Append(sse_out, sse_line(Head(event_queue)))
    /\ event_queue' = Tail(event_queue)
    /\ UNCHANGED <<orders, last_cancel, n_cancels, relay_vars, w_vars, h_vars>>

----------------------------------------------------------------------------
(* The two processes together.                                             *)

Next ==
    \/ WorkerStart
    \/ \E flavor \in Flavor : CreateOrder(flavor)
    \/ \E request_id \in RequestIds : CancelOrder(request_id)
    \/ HandleClient
    \/ SseEvents
    \/ \E id \in Ids : ExecuteOrderStart(id)
    \/ \E id \in Ids, raised \in BOOLEAN : EpisodeFirst(id, raised)
    \/ \E id \in Ids, r \in BOOLEAN : RKeyFirst(id, r)
    \/ \E id \in Ids, raised \in BOOLEAN : EpisodeDone(id, raised)
    \/ \E id \in Ids, r \in BOOLEAN : RKeyWait(id, r)
    \/ \E id \in Ids : SleepDone(id)
    \/ WorkerExit

Spec == Init /\ [][Next]_vars

----------------------------------------------------------------------------
(* One OrderStateManager(skip_socket=True) and its callers: the operations *)
(* of machine.py applied in any order with any arguments.                  *)

Messages == {MsgPhase2Start}

Progresses == {5}

InitLifecycle == Init /\ worker = "down"

LcFrame ==
    UNCHANGED <<sse_out, last_cancel, n_cancels, relay_vars, w_vars, published, sse_out2, got,
                loop_vars>>

LcApply(r, op) ==
    /\ n_ops < MaxOps
    /\ n_ops' = n_ops + 1
    /\ orders' = r.orders
    /\ event_queue' = publish_event(event_queue, r.event)
    /\ last_op' = op
    /\ LcFrame

LcCreateOrder(flavor) ==
    /\ Cardinality(DOMAIN orders) < MaxIds
    /\ LET request_id == Cardinality(DOMAIN orders) + 1 IN
       LcApply(create_order(orders, request_id, flavor),
               [op |-> "create_order", request_id |-> request_id])

LcSetPhase(request_id, phase, message, progress) ==
    LcApply(set_phase(orders, request_id, phase, message, progress),
            [op |-> "set_phase", request_id |-> request_id, phase |-> phase,
             message |-> message, progress |-> progress])

LcMarkCompleted(request_id) ==
    LcApply(mark_completed(orders, request_id),
            [op |-> "mark_completed", request_id |-> request_id])

LcMarkCanceled(request_id) ==
    LcApply(mark_canceled(orders, request_id),
            [op |-> "mark_canceled", request_id |-> request_id])

LcMarkError(request_id, message) ==
    LcApply(mark_error(orders, request_id, message),
            [op |-> "mark_error", request_id |-> request_id, message |-> message])

NextLifecycle ==
    \/ \E flavor \in Flavor : LcCreateOrder(flavor)
    \/ \E request_id \in RequestIds, phase \in OrderPhase, message \in Messages,
          progress \in Progresses : LcSetPhase(request_id, phase, message, progress)
    \/ \E request_id \in RequestIds : LcMarkCompleted(request_id)
    \/ \E request_id \in RequestIds : LcMarkCanceled(request_id)
    \/ \E request_id \in RequestIds, message \in Messages : LcMarkError(request_id, message)

SpecLifecycle == InitLifecycle /\ [][NextLifecycle]_vars

----------------------------------------------------------------------------
(* One process's event bus and its users: publish_event and the drain of   *)
(* iter_events by the SSE generator.                                       *)

BusEvents ==
    {StatusUpdateEvent(1, "PUTTING_DONUT", 5, MsgPhase1Done),
     CompletedEvent(1, [delivered |-> TRUE, flavor |-> "chocolate"]),
     ErrorEvent(2, MsgCanceledEvent)}

InitBus == Init /\ worker = "down"

BusPublish(event) ==
    /\ Len(published) < MaxPublish
    /\ published' = Append(published, event)
    /\ event_queue' = publish_event(event_queue, event)
    /\ UNCHANGED <<orders, sse_out, last_cancel, n_cancels, relay_vars, w_vars,
                   n_ops, last_op, sse_out2, got, loop_vars>>

NextBus ==
    \/ \E event \in BusEvents : BusPublish(event)
    \/ SseEvents

SpecBus == InitBus /\ [][NextBus]_vars

----------------------------------------------------------------------------
(* One event bus drained by two SSE clients at once: each GET /events runs *)
(* its own iter_events over the same _event_queue.                         *)

\* a drain that yields the next event without taking it off the queue
IterEvents_mut(client) ==
    /\ event_queue # <<>>
    /\ IF client = 1
       THEN sse_out' = Append(sse_out, sse_line(Head(event_queue))) /\ UNCHANGED sse_out2
       ELSE sse_out2' = Append(sse_out2, sse_line(Head(event_queue))) /\ UNCHANGED sse_out
    /\ got' = Append(got, client)
    /\ UNCHANGED <<event_queue, orders, last_cancel, n_cancels, relay_vars, w_vars,
                   n_ops, last_op, published, loop_vars>>

\* event = await _event_queue.get(); yield the data line to this client
IterEvents(client) ==
    /\ event_queue # <<>>
    /\ event_queue' = Tail(event_queue)
    /\ IF client = 1
       THEN sse_out' = Append(sse_out, sse_line(Head(event_queue))) /\ UNCHANGED sse_out2
       ELSE sse_out2' = Append(sse_out2, sse_line(Head(event_queue))) /\ UNCHANGED sse_out
    /\ got' = Append(got, client)
    /\ UNCHANGED <<orders, last_cancel, n_cancels, relay_vars, w_vars,
                   n_ops, last_op, published, loop_vars>>

NextDrain ==
    \/ \E event \in BusEvents : BusPublish(event)
    \/ IterEvents(1)
    \/ IterEvents(2)

\* the first client keeps draining: its get() is served whenever the queue
\* stays non-empty
SpecDrain == InitBus /\ [][NextDrain]_vars /\ WF_vars(IterEvents(1))

----------------------------------------------------------------------------
(* The control channel on its own: any client of /tmp/doughnut_worker.sock *)
(* connects and writes, _socket_server_loop serves one connection at a     *)
(* time.  The tasks it schedules run up to the end of their first engine   *)
(* run.                                                                    *)

ControlData ==
    {Command("start_order", 1, "chocolate"), Command("start_order", 1, "None"),
     Command("start_order", 2, "strawberry"), Command("start_order", None, "chocolate"),
     Command("cancel_order", 1, "None"), Command("cancel_order", 2, "None"),
     Command("cancel_order", None, "None"),
     Command("shutdown", None, "None"), Command("status", 1, "None"),
     NotACommand, NoData}

ControlFrame == UNCHANGED <<gw_vars, published, sse_out2, got, loop_vars>>

\* one accepted connection: read, dispatch, respond, close; request ids are
\* uuid4 values, so no StartOrder names an order whose task is still alive
ServeConnection(data) ==
    /\ worker = "serving"
    /\ n_ops < MaxOps
    /\ responses(data) = <<Ok("Order started")>>
          => (data.request_id \in DOMAIN tasks
                 => tasks[data.request_id].pc = "finished")
    /\ n_ops' = n_ops + 1
    /\ last_op' = [op |-> "connection", accepted |-> TRUE, data |-> data,
                   responses |-> responses(data), closed |-> TRUE,
                   result |-> command_result(responses(data))]
    /\ IF responses(data) = <<Ok("Order started")>>
       THEN HandleStartOrder(data.request_id, data.flavor) /\ UNCHANGED event_socket
       ELSE IF responses(data) = <<Ok("Order canceled")>>
       THEN HandleCancelOrder(data.request_id)
       ELSE IF responses(data) = <<Ok("Shutdown requested")>>
       THEN HandleShutdown
       ELSE UNCHANGED <<relay_vars, w_vars>>
    /\ ControlFrame

\* the worker is not listening: sock_connect raises in the client
ConnectFails(data) ==
    /\ worker # "serving"
    /\ n_ops < MaxOps
    /\ n_ops' = n_ops + 1
    /\ last_op' = [op |-> "connection", accepted |-> FALSE, data |-> data,
                   responses |-> <<>>, closed |-> TRUE,
                   result |-> Error("connect failed")]
    /\ UNCHANGED <<relay_vars, w_vars>>
    /\ ControlFrame

NextControl ==
    \/ WorkerStart
    \/ \E data \in ControlData : ServeConnection(data)
    \/ \E data \in ControlData : ConnectFails(data)
    \/ \E id \in Ids : ExecuteOrderStart(id)
    \/ \E id \in Ids, raised \in BOOLEAN : EpisodeFirst(id, raised)
    \/ WorkerExit

SpecControl == Init /\ [][NextControl]_vars

----------------------------------------------------------------------------
(* The event relay channel on its own: any client of                       *)
(* /tmp/doughnut_events.sock writes lines, handle_client reads them.       *)

\* events of every member of the GatewayEvent union
RelayEvents ==
    BusEvents \cup {StatusUpdateEvent(2, "CLOSING_LID", 9, MsgPhase2Start),
                    ErrorEvent(None, MsgEngineFailed)}

\* bytes that json.loads rejects
NotJson == [kind |-> "text"]

\* lines that are JSON but no GatewayEvent: an unknown type, a progress of 1.1
NotEvents ==
    {[kind |-> "json", obj |-> [type |-> JString("bogus")]],
     [kind |-> "json",
      obj |-> [type |-> JString("status_update"), request_id |-> JString(1),
               stage |-> JString("CLOSING_LID"), progress |-> JNumber(11),
               message |-> JString(MsgPhase2Start)]]}

RelayFrame ==
    UNCHANGED <<orders, event_queue, sse_out, last_cancel, n_cancels, drops, w_vars,
                n_ops, last_op, sse_out2, got, loop_vars>>

\* a publisher's _send_event_to_socket reaches the gateway
RelaySendEvent(event) ==
    /\ Len(published) < MaxPublish
    /\ event_socket' = send_event_to_socket(event_socket, event, TRUE)
    /\ published' = Append(published, event)
    /\ RelayFrame

\* some client writes a line that is not an encoded event
RelaySendLine(line) ==
    /\ Len(published) < MaxPublish
    /\ event_socket' = Append(event_socket, line)
    /\ published' = Append(published, [type |-> "malformed"])
    /\ RelayFrame

NextRelay ==
    \/ \E event \in RelayEvents : RelaySendEvent(event)
    \/ \E line \in NotEvents \cup {NotJson} : RelaySendLine(line)
    \/ HandleClient
    \/ SseEvents

SpecRelay == InitBus /\ [][NextRelay]_vars

----------------------------------------------------------------------------
(* The event relay channel connection by connection: the sender opens one  *)
(* connection for each event; accept_loop creates one handle_client task   *)
(* for each connection; the gateway's event loop polls its sockets once    *)
(* in every iteration and runs the callbacks of its queue oldest first.    *)

\* a callback in the event loop's queue; c is the connection it belongs to
Handle(h, c) == [h |-> h, c |-> c]

Without(pending, c) == SelectSeq(pending, LAMBDA x : x # c)

\* an accept that returns the newest connection of the listen queue
sock_accept_mut(pending) == pending[Len(pending)]

\* client, _ = await loop.sock_accept(_event_server_socket): the oldest
\* connection of the listen queue
sock_accept(pending) == Head(pending)

\* the first k connections accept_loop gets from sock_accept
RECURSIVE Accepted(_, _)
Accepted(pending, k) ==
    IF k = 0 THEN <<>>
    ELSE LET c == sock_accept(pending)
         IN <<c>> \o Accepted(Without(pending, c), k - 1)

\* asyncio.create_task(handle_client(client)) for each connection of cs
create_task(cs) == [k \in DOMAIN cs |-> Handle("handle_client", cs[k])]

AcceptFrame ==
    UNCHANGED <<sse_out, last_cancel, n_cancels, relay_vars, w_vars,
                n_ops, last_op, sse_out2, got>>

\* _send_event_to_socket: socket.socket() and sock_connect; the sender's
\* earlier connection was written and closed
SendConnect(event) ==
    /\ Len(published) < MaxPublish
    /\ \A k \in DOMAIN published : published[k] # event
    /\ \A c \in DOMAIN clients : clients[c].sent
    /\ published' = Append(published, event)
    /\ clients' = Append(clients, [line |-> json_line(event), sent |-> FALSE,
                                   st |-> "pending"])
    /\ backlog' = Append(backlog, Len(clients) + 1)
    /\ UNCHANGED <<orders, event_queue, ready, ntodo, accepting>>
    /\ AcceptFrame

\* _send_event_to_socket: sock_sendall of the line, client.close()
SendSendall ==
    /\ \E c \in DOMAIN clients :
          /\ ~clients[c].sent
          /\ clients' = [clients EXCEPT ![c].sent = TRUE]
    /\ UNCHANGED <<orders, event_queue, published, backlog, ready, ntodo, accepting>>
    /\ AcceptFrame

\* the sockets the loop waits for that are ready: the server socket when a
\* connection is pending, a connection when its line has arrived
IoReady ==
    (IF accepting = "waiting" /\ backlog # <<>> THEN {Handle("accept_cb", 0)} ELSE {})
    \cup {Handle("reader_cb", c) : c \in {k \in DOMAIN clients :
                                        clients[k].st = "reading" /\ clients[k].sent}}

Orderings(S) ==
    {o \in [1..Cardinality(S) -> S] : \A x \in S : \E k \in DOMAIN o : o[k] = x}

\* the loop starts an iteration: it polls the sockets, queues the callbacks
\* of those that are ready, in any order, behind the callbacks already
\* queued, and will run what is queued now
Select ==
    /\ ntodo = 0
    /\ ready # <<>> \/ IoReady # {}
    /\ \E o \in Orderings(IoReady) :
          /\ ready' = ready \o o
          /\ ntodo' = Len(ready) + Len(o)
    /\ accepting' = IF Handle("accept_cb", 0) \in IoReady THEN "callback" ELSE accepting
    /\ clients' = [c \in DOMAIN clients |->
                      IF Handle("reader_cb", c) \in IoReady
                      THEN [clients[c] EXCEPT !.st = "readable"] ELSE clients[c]]
    /\ UNCHANGED <<orders, event_queue, published, backlog>>
    /\ AcceptFrame

\* handle_client: the line is decoded and the event put on the bus (lines
\* 104-118); the connection's task ends
ReceiveLine(c) ==
    /\ clients' = [clients EXCEPT ![c].st = "done"]
    /\ LET v == model_validate(clients[c].line) IN
       IF v.ok
       THEN LET s == notify_subscribers(orders, v.event) IN
            /\ orders' = s.orders
            /\ event_queue' = publish_event(event_queue, v.event) \o s.events
       ELSE UNCHANGED <<orders, event_queue>>

\* the callback of the server socket: sock_accept returns a connection to
\* accept_loop
RunAcceptCb ==
    /\ Head(ready).h = "accept_cb"
    /\ LET c == sock_accept(backlog) IN
       /\ backlog' = Without(backlog, c)
       /\ ready' = Append(Tail(ready), Handle("accept_loop", c))
    /\ accepting' = "running"
    /\ UNCHANGED <<clients, orders, event_queue>>

\* accept_loop: create_task for the connection it was given and for the
\* pending connections, which sock_accept returns at once; then it waits in
\* sock_accept
RunAcceptLoop ==
    /\ Head(ready).h = "accept_loop"
    /\ LET cs == <<Head(ready).c>> \o Accepted(backlog, Len(backlog)) IN
       /\ ready' = Tail(ready) \o create_task(cs)
       /\ backlog' = SelectSeq(backlog, LAMBDA x : \A j \in DOMAIN cs : cs[j] # x)
       /\ clients' = [c \in DOMAIN clients |->
                         IF \E j \in DOMAIN cs : cs[j] = c
                         THEN [clients[c] EXCEPT !.st = "created"] ELSE clients[c]]
    /\ accepting' = "waiting"
    /\ UNCHANGED <<orders, event_queue>>

\* handle_client, first step: sock_recv returns the line at once when it has
\* arrived; the task suspends when it has not
RunHandleClient ==
    /\ Head(ready).h = "handle_client"
    /\ clients[Head(ready).c].st = "created"
    /\ ready' = Tail(ready)
    /\ IF clients[Head(ready).c].sent
       THEN ReceiveLine(Head(ready).c)
       ELSE /\ clients' = [clients EXCEPT ![Head(ready).c].st = "reading"]
            /\ UNCHANGED <<orders, event_queue>>
    /\ UNCHANGED <<backlog, accepting>>

\* the callback of a connection whose line has arrived: the suspended
\* handle_client is queued
RunReaderCb ==
    /\ Head(ready).h = "reader_cb"
    /\ ready' = Append(Tail(ready), Handle("handle_client", Head(ready).c))
    /\ clients' = [clients EXCEPT ![Head(ready).c].st = "woken"]
    /\ UNCHANGED <<backlog, accepting, orders, event_queue>>

\* handle_client resumes in sock_recv with the line
RunWoken ==
    /\ Head(ready).h = "handle_client"
    /\ clients[Head(ready).c].st = "woken"
    /\ ready' = Tail(ready)
    /\ ReceiveLine(Head(ready).c)
    /\ UNCHANGED <<backlog, accepting>>

\* the loop runs the oldest callback of this iteration
RunHandle ==
    /\ ntodo > 0
    /\ ntodo' = ntodo - 1
    /\ \/ RunAcceptCb
       \/ RunAcceptLoop
       \/ RunHandleClient
       \/ RunReaderCb
       \/ RunWoken
    /\ UNCHANGED published
    /\ AcceptFrame

NextAccept ==
    \/ \E event \in RelayEvents : SendConnect(event)
    \/ SendSendall
    \/ Select
    \/ RunHandle
    \/ SseEvents

SpecAccept == InitBus /\ [][NextAccept]_vars

----------------------------------------------------------------------------
(* Properties.                                                             *)

Status(request_id) == get_order_status(orders, request_id)

\* the order request_id enters the gateway registry in this step
Created(request_id) == request_id \notin DOMAIN orders /\ request_id \in DOMAIN orders'

\* the worker has published the cancellation event of request_id
CancelPublished(request_id) ==
    \E i \in DOMAIN w_event_queue :
        w_event_queue[i] = ErrorEvent(request_id, MsgCanceledEvent)

\* the worker has published the Completed event of request_id
CompletedPublished(request_id) ==
    \E i \in DOMAIN w_event_queue :
        /\ w_event_queue[i].type = "completed"
        /\ w_event_queue[i].request_id = request_id

\* every event the worker published was sent, read and applied by the gateway
AllRelayed == event_socket = <<>> /\ drops = 0

\* C1 (as claimed): every order the gateway's creation operation creates is
\* stored with phase WAITING and progress 0.0, and the status query right
\* after the creation returns WAITING, 0.0, done = false.
C1_Original ==
    [][\A id \in Ids : Created(id) =>
          LET st == get_order_status(orders', id) IN
          st.stage = "WAITING" /\ st.progress = 0 /\ st.done = FALSE]_vars

\* C1 (amended): every order the creation operation creates is stored with
\* progress 0.0; when the worker answered StartOrder with ok its phase is
\* WAITING and the status query right after returns WAITING, 0.0,
\* done = false; when StartOrder was not answered ok the order is in ERROR
\* when the operation returns and the query returns ERROR, 0.0, done = true.
C1_Amended ==
    [][\A id \in Ids : Created(id) =>
          LET st == get_order_status(orders', id) IN
          /\ st.http = 200
          /\ st.progress = 0
          /\ IF WorkerReachable
             THEN st.stage = "WAITING" /\ st.done = FALSE
             ELSE st.stage = "ERROR" /\ st.done = TRUE]_vars

\* C1 witness: an order was created, the worker accepted it, and no worker
\* event has been applied yet.
C1_Witness ==
    /\ 1 \in DOMAIN orders /\ 1 \in DOMAIN tasks
    /\ tasks[1].pc = "created"
    /\ Status(1).stage = "WAITING" /\ Status(1).progress = 0 /\ ~Status(1).done

\* C2 (as claimed): for a chocolate order the worker fulfilled through
\* PUTTING_DONUT, CLOSING_LID and completion, once all its events are relayed
\* and applied, the status query returns DONE, 1.0, done = true and a
\* Completed event delivered to the SSE subscriber for it carries
\* delivered = true and flavor "chocolate".
C2_Claim ==
    \A id \in DOMAIN orders :
        (/\ orders[id].flavor = "chocolate"
         /\ CompletedPublished(id)
         /\ ~shutdown_event
         /\ AllRelayed)
        => /\ Status(id).stage = "DONE"
           /\ Status(id).progress = 10
           /\ Status(id).done
           /\ \A i \in DOMAIN sse_out :
                 (sse_out[i].data.type = "completed" /\ sse_out[i].data.request_id = id)
                 => sse_out[i].data.result = [delivered |-> TRUE, flavor |-> "chocolate"]

\* C3 (as claimed): after a CancelOrder for the order that is active in the
\* worker (the worker published its cancellation), once the worker's events
\* are relayed and applied the status query returns CANCELED, done = true.
C3_Claim ==
    \A id \in DOMAIN orders :
        (CancelPublished(id) /\ AllRelayed)
        => Status(id).stage = "CANCELED" /\ Status(id).done

\* C4 (as claimed): once the status query's done flag of an order is true
\* (phase DONE, CANCELED or ERROR) it is true in every later state.
C4_Claim ==
    [][\A id \in DOMAIN orders :
          Status(id).done => get_order_status(orders', id).done]_vars

\* C5 (as claimed): whenever an order's phase is DONE its progress is 1.0,
\* and once an order is DONE no later lifecycle operation (set_phase,
\* mark_canceled, mark_error, mark_completed) changes its phase.
C5_Claim ==
    [][/\ \A id \in DOMAIN orders' :
             orders'[id].phase = "DONE" => orders'[id].progress = 10
       /\ \A id \in DOMAIN orders :
             orders[id].phase = "DONE" => orders'[id].phase = "DONE"]_vars

HappyPath == <<"WAITING", "PUTTING_DONUT", "CLOSING_LID", "DONE">>

Rank(phase) == CHOOSE i \in 1..4 : HappyPath[i] = phase

\* the step from phase p to phase q is one the Phase state machine allows
Forward(p, q) ==
    \/ p = q
    \/ p \notin {"DONE", "CANCELED", "ERROR"} /\ q \in {"CANCELED", "ERROR"}
    \/ p \notin {"CANCELED", "ERROR"} /\ q \notin {"CANCELED", "ERROR"} /\ Rank(p) < Rank(q)

\* C6 (as claimed): the phase recorded for an order only moves forward along
\* WAITING, PUTTING_DONUT, CLOSING_LID, DONE or into CANCELED or ERROR, and
\* never leaves DONE, CANCELED or ERROR.
C6_Claim ==
    [][\A id \in DOMAIN orders : Forward(orders[id].phase, orders'[id].phase)]_vars

C8_CancelUnknown ==
    [][(n_cancels' = n_cancels + 1 /\ last_cancel'.request_id \notin DOMAIN orders)
       => /\ last_cancel'.response = "not_found"
          /\ orders' = orders
          /\ UNCHANGED <<event_queue, relay_vars, w_vars>>]_vars

\* C8 witness: an unknown id was cancelled while another order is active in
\* the worker.
C8_Witness ==
    /\ last_cancel.response = "not_found" /\ ~last_cancel.known
    /\ last_cancel.request_id = 2
    /\ DOMAIN orders = {1}
    /\ current_request_id = 1
    /\ worker = "serving"

\* C9 (as claimed): cancelling an id that is in the gateway registry never
\* answers not-found, whatever the worker's state.
C9_Claim == last_cancel.known => last_cancel.response # "not_found"

\* the SSE lines of a sequence of events
Lines(events) == [i \in DOMAIN events |-> sse_line(events[i])]

\* C10: the events of one event bus are drained in the order they were
\* published: what the consumer has received, followed by what is still
\* queued, is the sequence of publishes.
C10_Fifo == sse_out \o Lines(event_queue) = Lines(published)

\* C10 witness: two different events were published and both were drained.
C10_Witness ==
    /\ Len(published) >= 2 /\ published[1] # published[2]
    /\ Len(sse_out) >= 2
    /\ sse_out[1] = sse_line(published[1]) /\ sse_out[2] = sse_line(published[2])

\* the lines client c received, as the publishes they came from
TakenBy(c) ==
    LET F[k \in 0..Len(got)] ==
            IF k = 0 THEN <<>>
            ELSE IF got[k] = c THEN Append(F[k - 1], sse_line(published[k]))
            ELSE F[k - 1]
    IN F[Len(got)]

\* every publish is taken by at most one client, and each client holds
\* exactly the lines of the publishes it took
DeliveredOnce ==
    /\ Len(got) + Len(event_queue) = Len(published)
    /\ sse_out = TakenBy(1)
    /\ sse_out2 = TakenBy(2)

\* C11: every event put on the event bus is delivered to at most one drain
\* consumer; two concurrent consumers receive disjoint sets of events; and
\* while one consumer keeps draining, every event is eventually delivered,
\* exactly once.
C11_DeliveredOnce ==
    /\ []DeliveredOnce
    /\ \A k \in 1..MaxPublish : (Len(published) >= k) ~> (Len(got) >= k)

\* C11 witness: three events were published and both clients received some.
C11_Witness ==
    /\ Len(published) = 3 /\ event_queue = <<>>
    /\ got = <<1, 2, 1>>
    /\ Len(sse_out) = 2 /\ Len(sse_out2) = 1

\* occurrences of x in the sequence seq
Count(x, seq) == Cardinality({k \in DOMAIN seq : seq[k] = x})

\* every event the gateway's event bus has held, oldest first
GatewayBus == [k \in DOMAIN sse_out |-> sse_out[k].data] \o event_queue

\* C12 (as claimed): an event the worker published once is on the gateway's
\* event bus at most once; the relay and the gateway's update of its
\* registry never duplicate it.
C12_Claim ==
    \A i \in DOMAIN w_event_queue :
        Count(w_event_queue[i], GatewayBus) <= Count(w_event_queue[i], w_event_queue)

\* handle_client takes the next line off the event socket in this step
LineRead == event_socket # <<>> /\ event_socket' = Tail(event_socket)

\* what the sender handed to the relay for the line that is read next
NextSent == published[Len(published) - Len(event_socket) + 1]

\* the event is put on the gateway's event bus in this step
Enqueued(event) ==
    /\ Len(event_queue') > Len(event_queue)
    /\ event_queue'[Len(event_queue) + 1] = event

MalformedBefore ==
    \E k \in 1..(Len(published) - Len(event_socket)) : published[k].type = "malformed"

RelayAttempt == Len(event_socket') > Len(event_socket) \/ drops' = drops + 1

\* C15: publish_event appends the event to the local event bus and returns
\* to the publisher whether the relay send succeeds or fails: with every
\* relay attempt exactly one event is added at the end of the local queue, a
\* line that is sent is the encoding of that event, and an order whose first
\* publish is not relayed still goes on into its first engine run.
C15_PublishLocal ==
    [][RelayAttempt =>
          /\ Len(w_event_queue') = Len(w_event_queue) + 1
          /\ SubSeq(w_event_queue', 1, Len(w_event_queue)) = w_event_queue
          /\ Len(event_socket') > Len(event_socket)
             => event_socket'[Len(event_socket')] = json_line(w_event_queue'[Len(w_event_queue')])
          /\ \A id \in DOMAIN tasks :
                tasks[id].pc = "created" /\ tasks'[id].pc # "created"
                => tasks'[id].pc = "race"]_vars

\* C15 witness: the relay send of an order's first publish failed; the event
\* is on the worker's local queue and the order is in its first engine run.
C15_Witness ==
    /\ drops = 1 /\ event_socket = <<>> /\ Len(GatewayBus) = 1
    /\ Len(w_event_queue) = 1 /\ w_event_queue[1].stage = "PUTTING_DONUT"
    /\ 1 \in DOMAIN tasks /\ tasks[1].pc = "race"

C17_MissingId ==
    [][(/\ n_ops' = n_ops + 1
        /\ last_op'.op \in {"set_phase", "mark_completed", "mark_canceled", "mark_error"}
        /\ last_op'.request_id \notin DOMAIN orders)
       => /\ orders' = orders
          /\ Len(event_queue') = Len(event_queue) + 1
          /\ SubSeq(event_queue', 1, Len(event_queue)) = event_queue
          /\ event_queue'[Len(event_queue')].request_id = last_op'.request_id]_vars

\* C17 witness: mark_completed was applied to an id the registry does not
\* hold, next to an order it holds; the event it published names that id.
C17_Witness ==
    /\ DOMAIN orders = {1} /\ orders[1].phase = "WAITING"
    /\ last_op = [op |-> "mark_completed", request_id |-> 2]
    /\ event_queue[Len(event_queue)] =
           CompletedEvent(2, [delivered |-> TRUE, flavor |-> "unknown"])

\* the worker publishes an event in this step
WorkerPublishes == Len(w_event_queue') = Len(w_event_queue) + 1

\* the event the worker publishes in this step
WorkerEvent == w_event_queue'[Len(w_event_queue')]

\* C18: the worker publishes CLOSING_LID for an order only after the R key
\* was confirmed since the order entered PUTTING_DONUT, and publishes the
\* completion only after a further confirmation since it entered
\* CLOSING_LID, whether the engine run or the confirmation ended first.
C18_ConfirmationMandatory ==
    [][WorkerPublishes =>
          /\ (WorkerEvent.type = "status_update" /\ WorkerEvent.stage = "CLOSING_LID")
             => /\ tasks[WorkerEvent.request_id].ph = 1
                /\ tasks[WorkerEvent.request_id].confirmed
          /\ WorkerEvent.type = "completed"
             => /\ tasks[WorkerEvent.request_id].ph = 2
                /\ tasks[WorkerEvent.request_id].confirmed]_vars

\* C18 witness: an order was confirmed in both phases and completed.
C18_Witness ==
    /\ 1 \in DOMAIN tasks /\ tasks[1].pc = "finished" /\ tasks[1].ph = 2
    /\ tasks[1].confirmed
    /\ Len(w_event_queue) = 4
    /\ w_event_queue[3].stage = "CLOSING_LID"
    /\ w_event_queue[4].type = "completed"
    /\ ~shutdown_event

\* the confirmation wait of order id ends in this step without the R key
\* and without a shutdown request
NoConfirmation(id) ==
    /\ tasks[id].pc = "rkey" /\ tasks'[id].pc # "rkey"
    /\ ~tasks'[id].confirmed
    /\ ~shutdown_event

SequenceEnds(id) == Started(tasks[id]) /\ ~Started(tasks'[id])

\* C20: an exception raised during an order's fulfillment sequence is turned
\* into mark_error for that order with the exception's message, and on every
\* way out of the sequence (completion, error return, exception, and the
\* cancellation of the task) the worker's current-order pointer is empty.
C20_ExceptionAndCleanup ==
    [][\A id \in DOMAIN tasks :
          /\ (tasks[id].engine # "raised" /\ tasks'[id].engine = "raised")
             => /\ WorkerPublishes
                /\ WorkerEvent = ErrorEvent(id, MsgEngineFailed)
                /\ SequenceEnds(id)
          /\ SequenceEnds(id)
             => current_request_id' = None /\ current_flavor' = "None"]_vars

\* C20 witness: run_episode raised in the second phase; the error is
\* published and the pointer is empty.
C20_Witness ==
    /\ 1 \in DOMAIN tasks /\ tasks[1].pc = "finished" /\ tasks[1].engine = "raised"
    /\ tasks[1].ph = 2
    /\ w_event_queue[Len(w_event_queue)] = ErrorEvent(1, MsgEngineFailed)
    /\ current_request_id = None /\ current_flavor = "None"

\* a Completed or Error event for order id is among the events
TerminalPublished(id, events) ==
    \E i \in DOMAIN events :
        events[i].type \in {"completed", "error"} /\ events[i].request_id = id

\* C21 (as claimed): no fulfillment sequence the worker started ends without
\* a terminal event (Completed or Error) published for its order.
C21_Claim ==
    [][\A id \in DOMAIN tasks :
          SequenceEnds(id) => TerminalPublished(id, w_event_queue')]_vars

\* the worker serves a CancelOrder command for order id in this step
CancelServed(id) ==
    /\ n_ops' = n_ops + 1
    /\ last_op'.op = "connection" /\ last_op'.accepted
    /\ last_op'.data = Command("cancel_order", id, "None")

\* C22: a CancelOrder command for the worker's current order id sets the
\* shutdown flag and publishes the cancellation event of that order by the
\* time the response is written; a CancelOrder for any other id sets no flag,
\* publishes nothing and changes nothing in the worker; both are answered
\* with status ok.
C22_CancelCommand ==
    [][\A id \in Ids : CancelServed(id) =>
          /\ last_op'.responses = <<Ok("Order canceled")>>
          /\ last_op'.result.status = "ok"
          /\ IF current_request_id = id
             THEN /\ shutdown_event'
                  /\ WorkerPublishes
                  /\ WorkerEvent = ErrorEvent(id, MsgCanceledEvent)
             ELSE UNCHANGED <<shutdown_event, w_event_queue, event_socket, drops,
                              w_orders, tasks, worker>>]_vars

\* C22 witness: with two orders started, a cancel of the current one was
\* answered ok; the flag is set and the cancellation event is published.
C22_Witness ==
    /\ DOMAIN tasks = {1, 2} /\ tasks[1].pc = "race" /\ tasks[2].pc = "race"
    /\ current_request_id = 2
    /\ last_op.op = "connection"
    /\ last_op.data = Command("cancel_order", 2, "None")
    /\ last_op.responses = <<Ok("Order canceled")>>
    /\ shutdown_event
    /\ w_event_queue[Len(w_event_queue)] = ErrorEvent(2, MsgCanceledEvent)

\* C23 (as claimed): when the active order is cancelled while its engine run
\* is in flight, the engine's stop signal is set: once the sequence has seen
\* the confirmation wait return and awaits the engine's result, it does not
\* leave that wait with the stop signal still clear.
C23_Claim ==
    [][\A id \in DOMAIN tasks :
          (/\ CancelPublished(id)
           /\ tasks[id].engine = "running"
           /\ tasks[id].pc = "episode" /\ tasks'[id].pc # "episode")
          => tasks[id].episode_shutdown]_vars

\* the orders whose fulfillment sequence is executing in the worker
InFlight == {id \in DOMAIN tasks : Started(tasks[id])}

\* C24 (as claimed): at no time are two fulfillment sequences, and so two
\* engine runs, executing in the worker at once.
C24_Claim == Cardinality(InFlight) <= 1

\* the worker serves a StartOrder command for order id in this step
StartServed(id, flavor) ==
    /\ n_ops' = n_ops + 1
    /\ last_op'.op = "connection" /\ last_op'.accepted
    /\ last_op'.data = Command("start_order", id, flavor)

\* the fulfillment task of order id runs its first step in this step
Begins(id) == id \in DOMAIN tasks /\ tasks[id].pc = "created" /\ tasks'[id].pc = "race"

\* C25: a StartOrder command with request id and flavor is answered ok and
\* schedules a new task without touching the tasks of other orders, also while
\* another order is in flight; when a task begins the current-order pointer
\* becomes its id, and the pointer otherwise only changes to empty, so it never
\* names an order other than the one started last; a CancelOrder for an order
\* in flight that the pointer does not name changes nothing in the worker.
C25_ConcurrentStart ==
    [][/\ \A id \in Ids, flavor \in Flavor : StartServed(id, flavor) =>
             /\ last_op'.responses = <<Ok("Order started")>>
             /\ id \in DOMAIN tasks' /\ tasks'[id] = NewTask(flavor)
             /\ \A other \in DOMAIN tasks \ {id} : tasks'[other] = tasks[other]
             /\ UNCHANGED <<current_request_id, shutdown_event, w_event_queue>>
       /\ \A id \in Ids : Begins(id) => current_request_id' = id
       /\ current_request_id' # current_request_id
          => \/ current_request_id' = None
             \/ Begins(current_request_id')
       /\ \A id \in Ids :
             (CancelServed(id) /\ id \in InFlight /\ current_request_id # id)
             => /\ last_op'.responses = <<Ok("Order canceled")>>
                /\ UNCHANGED <<shutdown_event, w_event_queue, event_socket, drops,
                               w_orders, tasks, worker, current_request_id>>]_vars

\* C25 witness: order 2 was started while order 1 was in flight; the pointer
\* names order 2 and a cancel of order 1, answered ok, stopped nothing.
C25_Witness ==
    /\ InFlight = {1, 2}
    /\ current_request_id = 2
    /\ last_op.op = "connection"
    /\ last_op.data = Command("cancel_order", 1, "None")
    /\ last_op.responses = <<Ok("Order canceled")>>
    /\ ~shutdown_event /\ worker = "serving"
    /\ ~CancelPublished(1)

\* the engine run of order id is in flight before and after this step
StillRunning(id) == tasks[id].engine = "running" /\ tasks'[id].engine = "running"

\* C26: when the confirmation arrives before the engine finishes, the
\* engine's stop signal is set and the sequence awaits the engine's result:
\* the sequence publishes no status update and no completion for the order,
\* and starts no engine run, in a step that leaves the order's engine run in
\* flight.
C26_AwaitEngine ==
    [][\A id \in DOMAIN tasks :
          /\ (tasks[id].pc = "race" /\ tasks'[id].pc # "race"
              /\ tasks'[id].confirmed /\ tasks[id].engine = "running")
             => \/ /\ tasks'[id].pc = "episode"
                   /\ tasks'[id].episode_shutdown
                   /\ StillRunning(id)
                \/ tasks'[id].engine # "running"
          /\ (StillRunning(id) /\ WorkerPublishes /\ WorkerEvent.request_id = id)
             => WorkerEvent.type \notin {"status_update", "completed"}
          /\ StillRunning(id) => tasks'[id].ph = tasks[id].ph
          /\ tasks'[id].engine = "running" => tasks'[id].pc \in {"race", "episode", "cancelled"}]_vars

\* C26 witness: in the second phase the R key came first; the stop signal is
\* set, the engine still runs, and nothing was published after CLOSING_LID.
C26_Witness ==
    /\ 1 \in DOMAIN tasks /\ tasks[1].pc = "episode" /\ tasks[1].ph = 2
    /\ tasks[1].confirmed /\ tasks[1].episode_shutdown
    /\ tasks[1].engine = "running"
    /\ w_event_queue[Len(w_event_queue)].type = "status_update"
    /\ w_event_queue[Len(w_event_queue)].stage = "CLOSING_LID"

\* the stage and progress of the status updates for order id among the
\* events, oldest first
StatusProgress(events, id) ==
    LET F[k \in 0..Len(events)] ==
            IF k = 0 THEN <<>>
            ELSE IF events[k].type = "status_update" /\ events[k].request_id = id
            THEN Append(F[k - 1], <<events[k].stage, events[k].progress>>)
            ELSE F[k - 1]
    IN F[Len(events)]

NonDecreasing(sp) == \A i, j \in DOMAIN sp : i <= j => sp[i][2] <= sp[j][2]

\* the worker completed order id and published no error for it
Fulfilled(id) ==
    /\ CompletedPublished(id)
    /\ ~\E i \in DOMAIN w_event_queue :
           w_event_queue[i].type = "error" /\ w_event_queue[i].request_id = id

C28_ProgressMonotone ==
    [][/\ \A id \in DOMAIN orders :
             id \in DOMAIN orders' /\ orders'[id].progress >= orders[id].progress
       /\ w_orders' = EmptyDict]_vars

\* C28 witness: the order was cancelled after its first confirmation, the
\* gateway recorded the error, and the status update published after the
\* cancellation was applied: the progress went up to 0.9.
C28_Witness ==
    /\ 1 \in DOMAIN orders /\ CancelPublished(1)
    /\ orders[1].error_message = MsgCanceledEvent
    /\ orders[1].phase = "CLOSING_LID" /\ orders[1].progress = 9

\* C29: set_phase on an id the registry holds stores exactly the given
\* phase, message and progress whatever the order's phase was, keeps the
\* order's flavor and every other order as they are, and publishes exactly one
\* StatusUpdate that carries the given values.
C29_SetPhase ==
    [][(/\ n_ops' = n_ops + 1
        /\ last_op'.op = "set_phase"
        /\ last_op'.request_id \in DOMAIN orders)
       => LET id == last_op'.request_id IN
          /\ DOMAIN orders' = DOMAIN orders
          /\ orders'[id] = [orders[id] EXCEPT !.phase = last_op'.phase,
                                              !.message = last_op'.message,
                                              !.progress = last_op'.progress]
          /\ orders'[id].flavor = orders[id].flavor
          /\ \A other \in DOMAIN orders \ {id} : orders'[other] = orders[other]
          /\ Len(event_queue') = Len(event_queue) + 1
          /\ SubSeq(event_queue', 1, Len(event_queue)) = event_queue
          /\ event_queue'[Len(event_queue')] =
                 StatusUpdateEvent(id, last_op'.phase, last_op'.progress,
                                   last_op'.message)]_vars

\* C29 witness: a strawberry order that was DONE with progress 1.0 was set
\* back to WAITING with progress 0.5.
C29_Witness ==
    /\ DOMAIN orders = {1} /\ orders[1].flavor = "strawberry"
    /\ last_op.op = "set_phase" /\ last_op.request_id = 1
    /\ last_op.phase = "WAITING"
    /\ orders[1].phase = "WAITING" /\ orders[1].progress = 5
    /\ orders[1].message = MsgPhase2Start
    /\ Len(event_queue) = 3 /\ event_queue[2].type = "completed"
    /\ event_queue[3] = StatusUpdateEvent(1, "WAITING", 5, MsgPhase2Start)

\* C30: mark_completed publishes exactly one Completed event for the id,
\* with delivered = true and, as flavor, the stored order's flavor when the
\* registry holds the id and "unknown" when it does not; when it holds the
\* id the order's phase becomes DONE and its progress 1.0, and its flavor and
\* the other orders stay as they are.
C30_MarkCompleted ==
    [][(n_ops' = n_ops + 1 /\ last_op'.op = "mark_completed")
       => LET id == last_op'.request_id IN
          /\ Len(event_queue') = Len(event_queue) + 1
          /\ SubSeq(event_queue', 1, Len(event_queue)) = event_queue
          /\ event_queue'[Len(event_queue')] =
                 CompletedEvent(id, [delivered |-> TRUE,
                                     flavor |-> IF id \in DOMAIN orders
                                                THEN orders[id].flavor ELSE "unknown"])
          /\ DOMAIN orders' = DOMAIN orders
          /\ \A other \in DOMAIN orders \ {id} : orders'[other] = orders[other]
          /\ id \in DOMAIN orders
             => /\ orders'[id].phase = "DONE"
                /\ orders'[id].progress = 10
                /\ orders'[id].message = MsgCompleted
                /\ orders'[id].flavor = orders[id].flavor]_vars

\* C30 witness: of two orders the strawberry one was completed; the event
\* names its flavor and the other order is still WAITING.
C30_Witness ==
    /\ DOMAIN orders = {1, 2}
    /\ orders[2].flavor = "strawberry" /\ orders[1].flavor = "chocolate"
    /\ last_op = [op |-> "mark_completed", request_id |-> 2]
    /\ orders[2].phase = "DONE" /\ orders[2].progress = 10
    /\ orders[1].phase = "WAITING"
    /\ event_queue[Len(event_queue)] =
           CompletedEvent(2, [delivered |-> TRUE, flavor |-> "strawberry"])

\* the operation applied in this step is the one applied just before it,
\* with the same arguments
AppliedAgain ==
    /\ n_ops' = n_ops + 1
    /\ last_op' = last_op
    /\ last_op.op \in {"mark_completed", "mark_canceled", "mark_error"}

\* C31: mark_completed, mark_canceled and mark_error (with the same message)
\* are idempotent on the registry: applied to an order a second time in a
\* row they leave the registry as the first application left it, and for
\* every registry and id the result of applying one twice is the result of
\* applying it once.
C31_Idempotent ==
    [][/\ AppliedAgain => orders' = orders
       /\ \A id \in RequestIds :
             /\ mark_completed(mark_completed(orders, id).orders, id).orders
                    = mark_completed(orders, id).orders
             /\ mark_canceled(mark_canceled(orders, id).orders, id).orders
                    = mark_canceled(orders, id).orders
             /\ \A message \in Messages :
                   mark_error(mark_error(orders, id, message).orders, id, message).orders
                       = mark_error(orders, id, message).orders]_vars

\* C31 witness: an order was cancelled twice in a row; it is CANCELED and
\* both cancellations were published.
C31_Witness ==
    /\ DOMAIN orders = {1} /\ n_ops = 3
    /\ last_op = [op |-> "mark_canceled", request_id |-> 1]
    /\ orders[1].phase = "CANCELED" /\ orders[1].message = MsgCanceledState
    /\ event_queue[2] = ErrorEvent(1, MsgCanceledEvent)
    /\ event_queue[3] = ErrorEvent(1, MsgCanceledEvent)

\* control messages that are no command the worker can carry out
BadData ==
    {NotACommand, Command("status", 1, "None"), Command("start_order", 1, "None"),
     Command("start_order", None, "chocolate"), Command("cancel_order", None, "None")}

\* C32: a control message that is not JSON, names an unknown command type,
\* or is a StartOrder without request_id or flavor or a CancelOrder without
\* request_id is answered with one response of status error; no task is
\* scheduled, the current-order pointer, the shutdown flag and everything
\* else in the worker stay as they are, and the server loop goes on serving.
C32_BadCommand ==
    [][(/\ n_ops' = n_ops + 1
        /\ last_op'.op = "connection" /\ last_op'.accepted
        /\ last_op'.data \in BadData)
       => /\ Len(last_op'.responses) = 1
          /\ last_op'.responses[1].status = "error"
          /\ last_op'.result.status = "error"
          /\ tasks' = tasks
          /\ UNCHANGED <<current_request_id, current_flavor, shutdown_event,
                         w_orders, w_event_queue, event_socket, drops>>
          /\ worker' = "serving"]_vars

\* C32 witness: while order 1 is in flight a StartOrder without flavor was
\* answered with an error; order 1 is still in flight and the worker serves.
C32_Witness ==
    /\ InFlight = {1} /\ DOMAIN tasks = {1} /\ current_request_id = 1
    /\ last_op.op = "connection" /\ last_op.accepted
    /\ last_op.data = Command("start_order", 1, "None")
    /\ last_op.responses = <<Error("Missing request_id or flavor")>>
    /\ ~shutdown_event /\ worker = "serving"

\* C33: when the gateway creates an order and StartOrder is not answered ok,
\* the order is stored under its id all the same, the gateway publishes its
\* WAITING status update and then an Error event with the failure message,
\* the stored phase is ERROR with that error message, the status query
\* reports done = true, and the worker holds no task for the order.
C33_StartFailed ==
    [][\A id \in Ids : (Created(id) /\ ~WorkerReachable) =>
          /\ orders'[id].request_id = id
          /\ orders'[id].phase = "ERROR"
          /\ orders'[id].error_message = MsgStartFailed
          /\ get_order_status(orders', id).http = 200
          /\ get_order_status(orders', id).done
          /\ event_queue' = event_queue \o
                 <<StatusUpdateEvent(id, "WAITING", 0, MsgAccepted),
                   ErrorEvent(id, MsgStartFailed)>>
          /\ id \notin DOMAIN tasks'
          /\ UNCHANGED <<relay_vars, w_vars>>]_vars

\* C33 witness: an order was created while the worker was not running; it
\* is stored in ERROR, the query reports done, and the SSE client has
\* received the Error event.
C33_Witness ==
    /\ worker = "down" /\ tasks = EmptyDict
    /\ DOMAIN orders = {1}
    /\ orders[1].phase = "ERROR" /\ orders[1].error_message = MsgStartFailed
    /\ Status(1).done /\ Status(1).stage = "ERROR"
    /\ Len(sse_out) = 2 /\ sse_out[2] = sse_line(ErrorEvent(1, MsgStartFailed))

\* C34 (as claimed): only a Shutdown command stops the worker's control
\* loop; after a CancelOrder for the active order the worker goes on
\* accepting connections.
C34_Claim ==
    [][(worker = "serving" /\ worker' # "serving")
       => last_op'.data = Command("shutdown", None, "None")]_vars

\* order id was never cancelled and some other order was
LaterOrder(id) ==
    /\ ~CancelPublished(id)
    /\ \E other \in Ids \ {id} : CancelPublished(other)

\* C35 (as claimed): cancelling one order does not affect a later order: a
\* StartOrder sent for another order after the cancellation is accepted, and
\* when the fulfillment of an order that was never cancelled begins after the
\* cancellation the shutdown flag is clear, so that its confirmations are
\* seen and it can reach mark_completed.
C35_Claim ==
    [][\A id \in Ids : LaterOrder(id) =>
          /\ \A flavor \in Flavor :
                (/\ n_ops' = n_ops + 1
                 /\ last_op'.op = "connection"
                 /\ last_op'.data = Command("start_order", id, flavor))
                => last_op'.result = Ok("Order started")
          /\ Begins(id) => ~shutdown_event']_vars

\* C36 (as claimed): once the worker has published the cancellation event of
\* an order it publishes no StatusUpdate and no Completed event for that
\* order, wherever in the fulfillment sequence the cancellation arrived.
C36_Claim ==
    [][WorkerPublishes =>
          (CancelPublished(WorkerEvent.request_id)
           => WorkerEvent.type \notin {"status_update", "completed"})]_vars

\* the terminal events (Completed or Error) of order id among events
Terminals(id, events) ==
    {i \in DOMAIN events :
        events[i].type \in {"completed", "error"} /\ events[i].request_id = id}

\* C37 (as claimed): over the whole run the worker publishes at most one
\* terminal event (Completed or Error) for each order, also when the order is
\* cancelled or fails during its fulfillment sequence.
C37_Claim == \A id \in Ids : Cardinality(Terminals(id, w_event_queue)) <= 1

\* C38 (as claimed): whenever the current-order pointer is non-empty it names
\* an order whose fulfillment sequence is still running, and whenever a
\* fulfillment sequence is running the pointer is non-empty, under any
\* interleaving of StartOrder commands and sequence completions.
C38_Claim ==
    /\ current_request_id # None => current_request_id \in InFlight
    /\ InFlight # {} => current_request_id # None

\* the gateway's state manager publishes in this step: an order is created or
\* a relayed event is applied to the registry
GatewayPublishes == Len(GatewayBus') > Len(GatewayBus)

FirstAt(event) ==
    CHOOSE k \in DOMAIN GatewayBus :
        GatewayBus[k] = event /\ \A m \in 1..(k - 1) : GatewayBus[m] # event

OnBus(event) == \E k \in DOMAIN GatewayBus : GatewayBus[k] = event

====
